---- MODULE Spec2Model ----
(***************************************************************************)
(* A model of mcstructure (src/src/mcstructure/__init__.py): the Block     *)
(* value, the Structure aggregate (index grid + deduplicating palette) and *)
(* its operations, with numpy's indexing and slice-assignment rules and    *)
(* Python's list indexing spelled out.                                     *)
(*                                                                         *)
(* A client works on one Structure, struct, through the public methods;   *)
(* combine takes a freshly constructed Structure as its second operand     *)
(* and the client rebinds struct to the result.  The blocks a palette      *)
(* holds are treated as values: the client does not mutate a Block after   *)
(* handing it to a Structure.                                              *)
(***************************************************************************)
EXTENDS Integers, Sequences, FiniteSets, TLC

VARIABLES
    struct,   \* the Structure the client works on
    doc,      \* the document of the last as_nbt / dump
    loaded,   \* the Structure the last load returned
    last,     \* the last call: its arguments, its outcome, what it returned
    probe,    \* the last size check or construction of the size specification
    steps     \* number of calls made so far

vars == <<struct, doc, loaded, last, probe, steps>>

(***************************************************************************)
(* Bounds of the model.                                                    *)
(***************************************************************************)
MaxX == 2

MaxY == 1

MaxZ == 2

MaxSteps == 2

MaxTrimSteps == 3

(***************************************************************************)
(* Program constants.                                                      *)
(***************************************************************************)
COMPABILITY_VERSION == 17959425

STRUCTURE_MAX_SIZE == <<64, 384, 64>>

(***************************************************************************)
(* Small arithmetic helpers.                                               *)
(***************************************************************************)
Min(x, y) == IF x <= y THEN x ELSE y

Max(x, y) == IF x >= y THEN x ELSE y

Abs(x) == IF x < 0 THEN 0 - x ELSE x

Axes == 1..3

(***************************************************************************)
(* Block state values.  Python's bool is a subclass of int and True == 1, *)
(* so a value carries its type tag t and, for bool and int, the number n;  *)
(* a str carries s.                                                        *)
(***************************************************************************)
StrVal(key, s) == [key |-> key, t |-> "str", n |-> 0, s |-> s]

BoolVal(key, b) == [key |-> key, t |-> "bool", n |-> IF b THEN 1 ELSE 0, s |-> ""]

IntVal(key, n) == [key |-> key, t |-> "int", n |-> n, s |-> ""]

\* A value of a type the annotations do not allow (a float, say).
FloatVal(key, n) == [key |-> key, t |-> "float", n |-> n, s |-> ""]

\* Python ==  on two state values.
ValueEq(v, w) ==
    IF v.t = "str" \/ w.t = "str"
    THEN v.t = w.t /\ v.s = w.s
    ELSE v.n = w.n

\* dict.__eq__ : same keys, equal values, insertion order ignored.
StatesEq(d, e) ==
    /\ Len(d) = Len(e)
    /\ \A i \in 1..Len(d) :
          \E j \in 1..Len(e) : d[i].key = e[j].key /\ ValueEq(d[i], e[j])

\* Block(identifier, waterlogged=..., **states)
Block(identifier, states, waterlogged) ==
    [identifier |-> identifier, states |-> states, waterlogged |-> waterlogged]

\* Block equality of the older schema: identifier and states only.
BlockEq_without_waterlogged(b, c) ==
    /\ b.identifier = c.identifier
    /\ StatesEq(b.states, c.states)

\* The dataclass-generated __eq__ : the tuple of the three fields.
BlockEq(b, c) ==
    /\ b.identifier = c.identifier
    /\ StatesEq(b.states, c.states)
    /\ b.waterlogged = c.waterlogged

\* Python's None where a Block is expected.
None == Block("<None>", << >>, FALSE)

WATER == Block("minecraft:water", <<IntVal("liquid_depth", 0)>>, FALSE)

STRUCTURE_VOID == Block("minecraft:structure_void", << >>, FALSE)

Air == Block("minecraft:air", << >>, FALSE)

StairsStates == <<BoolVal("upside_down_bit", FALSE), IntVal("weirdo_direction", 2)>>

Stairs == Block("minecraft:birch_stairs", StairsStates, FALSE)

StairsWL == Block("minecraft:birch_stairs", StairsStates, TRUE)

\* has_suitable_size with < in place of <=.
has_suitable_size_strict(size) ==
    \A i \in 1..(IF Len(size) <= 3 THEN Len(size) ELSE 3) :
        size[i] < <<64, 384, 64>>[i]

(***************************************************************************)
(* has_suitable_size: all(map(lambda n: n[0] <= n[1], zip(size, MAX))).    *)
(* zip stops at the shorter of the two sequences.                          *)
(***************************************************************************)
has_suitable_size(size) ==
    \A i \in 1..Min(Len(size), Len(STRUCTURE_MAX_SIZE)) :
        size[i] <= STRUCTURE_MAX_SIZE[i]

(***************************************************************************)
(* numpy arrays: a shape and the elements in C (row-major) order.          *)
(***************************************************************************)
Prod(shape) == shape[1] * shape[2] * shape[3]

\* 1-based position of cell c (0-based, in range) in the flattened array.
Flat(shape, c) == (c[1] * shape[2] + c[2]) * shape[3] + c[3] + 1

\* The cell at 1-based flat position k.
Unflat(shape, k) ==
    <<(k - 1) \div (shape[2] * shape[3]),
      ((k - 1) \div shape[3]) % shape[2],
      (k - 1) % shape[3]>>

np_full(shape, v) == [shape |-> shape, data |-> [k \in 1..Prod(shape) |-> v]]

\* An integer index i on an axis of length n: negative indices count from
\* the end; -1 stands for "IndexError".
NormIndex(i, n) ==
    IF 0 <= i /\ i < n THEN i
    ELSE IF i < 0 /\ i >= 0 - n THEN i + n
    ELSE -1

IndexOK(shape, c) == \A k \in Axes : NormIndex(c[k], shape[k]) >= 0

NormCoord(shape, c) == [k \in Axes |-> NormIndex(c[k], shape[k])]

\* arr[x, y, z]
GetItem(arr, c) == arr.data[Flat(arr.shape, NormCoord(arr.shape, c))]

\* arr[x, y, z] = v
SetItem(arr, c, v) ==
    [arr EXCEPT !.data[Flat(arr.shape, NormCoord(arr.shape, c))] = v]

\* A slice bound i on an axis of length n (slice.indices, step 1).
SliceIndex(i, n) == IF i < 0 THEN Max(i + n, 0) ELSE Min(i, n)

\* The cells start:stop selects on an axis of length n, as <<lo, length>>.
SliceRange(start, stop, n) ==
    <<SliceIndex(start, n), Max(0, SliceIndex(stop, n) - SliceIndex(start, n))>>

\* Whether a value of shape vshape can be assigned to a target of shape
\* tshape (same number of axes): each axis equal, or 1 in the value.
Broadcastable(vshape, tshape) ==
    \A k \in Axes : vshape[k] = tshape[k] \/ vshape[k] = 1

\* arr[s1:e1, s2:e2, s3:e3] = val, given that val can be broadcast.  (The
\* one-element sets here and below only name a value that is used often.)
SetSlice(arr, starts, stops, val) ==
    CHOOSE result \in
        {[a EXCEPT !.data =
            [i \in 1..Prod(a.shape) |->
                LET c == Unflat(a.shape, i)
                IN  IF \A k \in Axes : c[k] >= rng[k][1] /\ c[k] < rng[k][1] + rng[k][2]
                    THEN v.data[Flat(v.shape,
                            [k \in Axes |-> IF v.shape[k] = 1 THEN 0 ELSE c[k] - rng[k][1]])]
                    ELSE a.data[i]]] :
            a \in {arr}, v \in {val},
            rng \in {[k \in Axes |-> SliceRange(starts[k], stops[k], arr.shape[k])]}} : TRUE

SliceShape(arr, starts, stops) ==
    [k \in Axes |-> SliceRange(starts[k], stops[k], arr.shape[k])[2]]

(***************************************************************************)
(* Structure: _size, structure (the index grid) and _palette.              *)
(***************************************************************************)
\* __init__ with np.zeros on both branches.
InitValue_zeros(fill) == IF fill = None THEN 0 ELSE 0

\* Structure.__init__(size, fill): the value every cell starts with, the
\* palette it starts with, and how the call ends (no size is refused).
InitValue(fill) == IF fill = None THEN -1 ELSE 0

InitPalette(fill) == IF fill = None THEN << >> ELSE <<fill>>

InitOutcome(size, fill) == "ok"

StructureInit(size, fill) ==
    [size |-> size, structure |-> np_full(size, InitValue(fill)),
     palette |-> InitPalette(fill)]

\* block in self._palette
InPalette(palette, block) == \E i \in 1..Len(palette) : BlockEq(palette[i], block)

\* self._palette.index(block): the first equal entry, 0-based.
PaletteIndex(palette, block) ==
    (CHOOSE i \in 1..Len(palette) :
        /\ BlockEq(palette[i], block)
        /\ \A j \in 1..(i - 1) : ~BlockEq(palette[j], block)) - 1

\* _add_block_to_palette without the lookup: every block is appended.
add_block_to_palette_append(palette, block) ==
    IF block = None THEN [palette |-> palette, ident |-> -1]
    ELSE [palette |-> Append(palette, block), ident |-> Len(palette)]

\* _add_block_to_palette returning len(palette) after the append.
add_block_to_palette_off_by_one(palette, block) ==
    IF block = None THEN [palette |-> palette, ident |-> -1]
    ELSE IF InPalette(palette, block)
    THEN [palette |-> palette, ident |-> PaletteIndex(palette, block)]
    ELSE [palette |-> Append(palette, block), ident |-> Len(palette) + 1]

\* _add_block_to_palette inserting a new block at the front of the palette.
add_block_to_palette_prepend(palette, block) ==
    IF block = None THEN [palette |-> palette, ident |-> -1]
    ELSE IF InPalette(palette, block)
    THEN [palette |-> palette, ident |-> PaletteIndex(palette, block)]
    ELSE [palette |-> <<block>> \o palette, ident |-> 0]

\* Structure._add_block_to_palette: the palette afterwards and the index.
add_block_to_palette(palette, block) ==
    IF block = None THEN [palette |-> palette, ident |-> -1]
    ELSE IF InPalette(palette, block)
    THEN [palette |-> palette, ident |-> PaletteIndex(palette, block)]
    ELSE [palette |-> Append(palette, block), ident |-> Len(palette)]

\* Structure.get_block: the outcome and the Block returned.
get_block(s, c) ==
    IF ~IndexOK(s.structure.shape, c)
    THEN [outcome |-> "IndexError", ret |-> None]
    ELSE LET i == GetItem(s.structure, c)
         IN  IF i >= 0
             THEN IF i < Len(s.palette)
                  THEN [outcome |-> "ok", ret |-> s.palette[i + 1]]
                  ELSE [outcome |-> "IndexError", ret |-> None]
             ELSE [outcome |-> "ok", ret |-> STRUCTURE_VOID]

\* set_block writing structure[z, y, x].
set_block_swapped(s, c, block) ==
    LET r == add_block_to_palette(s.palette, block)
        t == [s EXCEPT !.palette = r.palette]
        d == <<c[3], c[2], c[1]>>
    IN  IF IndexOK(s.structure.shape, d)
        THEN [outcome |-> "ok",
              s |-> [t EXCEPT !.structure = SetItem(s.structure, d, r.ident)]]
        ELSE [outcome |-> "IndexError", s |-> t]

\* Structure.set_block: the outcome and the Structure afterwards.
set_block(s, c, block) ==
    LET r == add_block_to_palette(s.palette, block)
        t == [s EXCEPT !.palette = r.palette]
    IN  IF IndexOK(s.structure.shape, c)
        THEN [outcome |-> "ok",
              s |-> [t EXCEPT !.structure = SetItem(s.structure, c, r.ident)]]
        ELSE [outcome |-> "IndexError", s |-> t]

\* arr[s1:e1, s2:e2, s3:e3] as an array of its own.
GetSlice(arr, starts, stops) ==
    CHOOSE result \in
        {[shape |-> [k \in Axes |-> rng[k][2]],
          data |-> [i \in 1..(rng[1][2] * rng[2][2] * rng[3][2]) |->
                      LET c == Unflat([k \in Axes |-> rng[k][2]], i)
                      IN  a.data[Flat(a.shape, [k \in Axes |-> c[k] + rng[k][1]])]]] :
            a \in {arr},
            rng \in {[k \in Axes |-> SliceRange(starts[k], stops[k], arr.shape[k])]}} : TRUE

\* set_blocks with the end point left out: the slice stops at to.
set_blocks_exclusive(s, from, to, block) ==
    LET stops == [k \in Axes |-> to[k]]
        vshape == [k \in Axes |-> Abs(from[k] - to[k]) + 1]
        tshape == SliceShape(s.structure, from, stops)
    IN  CHOOSE result \in
            {IF Broadcastable(vshape, tshape)
             THEN [outcome |-> "ok",
                   s |-> [s EXCEPT !.palette = r.palette,
                                   !.structure = SetSlice(s.structure, from, stops,
                                                          np_full(vshape, r.ident))]]
             ELSE [outcome |-> "ValueError", s |-> [s EXCEPT !.palette = r.palette]] :
                r \in {add_block_to_palette(s.palette, block)}} : TRUE

\* Structure.set_blocks: the palette is extended first, then the box is
\* assigned an array of shape |from - to| + 1 on each axis.
set_blocks(s, from, to, block) ==
    LET stops == [k \in Axes |-> to[k] + 1]
        vshape == [k \in Axes |-> Abs(from[k] - to[k]) + 1]
        tshape == SliceShape(s.structure, from, stops)
    IN  CHOOSE result \in
            {IF Broadcastable(vshape, tshape)
             THEN [outcome |-> "ok",
                   s |-> [s EXCEPT !.palette = r.palette,
                                   !.structure = SetSlice(s.structure, from, stops,
                                                          np_full(vshape, r.ident))]]
             ELSE [outcome |-> "ValueError", s |-> [s EXCEPT !.palette = r.palette]] :
                r \in {add_block_to_palette(s.palette, block)}} : TRUE

\* resize that never copies the old grid.
resize_no_copy(s, size, fill) ==
    LET old == s.structure
    IN  CHOOSE result \in
            {IF old.shape = size
             THEN [s EXCEPT !.palette = r.palette, !.size = size]
             ELSE [s EXCEPT !.palette = r.palette, !.size = size,
                            !.structure =
                                np_full(size, IF fill # None THEN r.ident ELSE -1)] :
                r \in {add_block_to_palette(s.palette, fill)}} : TRUE

\* Structure.resize
resize(s, size, fill) ==
    LET old == s.structure
        copy_size == [k \in Axes |-> Min(old.shape[k], size[k])]
        origin == <<0, 0, 0>>
    IN  CHOOSE result \in
            {IF old.shape = size
             THEN [s EXCEPT !.palette = r.palette, !.size = size]
             ELSE IF \A k \in Axes : copy_size[k] > 0
             THEN [s EXCEPT !.palette = r.palette, !.size = size,
                            !.structure =
                                SetSlice(np_full(size, IF fill # None THEN r.ident ELSE -1),
                                         origin, copy_size,
                                         GetSlice(old, origin, copy_size))]
             ELSE [s EXCEPT !.palette = r.palette, !.size = size,
                            !.structure =
                                np_full(size, IF fill # None THEN r.ident ELSE -1)] :
                r \in {add_block_to_palette(s.palette, fill)}} : TRUE

\* The dict comprehension of combine: every block of other's palette is
\* interned, in order, into the combined palette; map[i] is the new index
\* of other's index i - 1.
RECURSIVE InternAll(_, _, _)
InternAll(palette, blocks, map) ==
    IF Len(map) = Len(blocks) THEN [palette |-> palette, map |-> map]
    ELSE LET r == add_block_to_palette(palette, blocks[Len(map) + 1])
         IN  InternAll(r.palette, blocks, Append(map, r.ident))

\* The remapping loop with its masks taken on the array being rewritten:
\* entry after entry, every cell that holds the old index by now is changed.
RECURSIVE RemapSeq(_, _, _)
RemapSeq(data, map, i) ==
    IF i > Len(map) THEN data
    ELSE RemapSeq([k \in 1..Len(data) |-> IF data[k] = i - 1 THEN map[i] ELSE data[k]],
                  map, i + 1)

Remap_in_place(arr, map) == [arr EXCEPT !.data = RemapSeq(arr.data, map, 1)]

\* The masked remapping loop of combine: the masks are taken on other's own
\* grid, so each cell is rewritten by the entry of its original index.
Remap(arr, map) ==
    CHOOSE result \in
        {[a EXCEPT !.data =
            [i \in 1..Prod(a.shape) |->
                IF a.data[i] >= 0 /\ a.data[i] < Len(m) THEN m[a.data[i] + 1]
                ELSE a.data[i]]] : a \in {arr}, m \in {map}} : TRUE

\* combine without the test on the sign of position.
combine_unchecked(self, other, position) ==
    LET end_pos == [k \in Axes |-> position[k] + other.size[k]]
        new_size == [k \in Axes |-> Max(self.size[k], end_pos[k])]
        combined == StructureInit(new_size, None)
        origin == <<0, 0, 0>>
        own_shape == SliceShape(combined.structure, origin, self.size)
    IN  IF ~Broadcastable(self.structure.shape, own_shape)
        THEN [outcome |-> "ValueError", ret |-> combined, self |-> self, other |-> other]
        ELSE CHOOSE result \in
            {IF ~Broadcastable(other.structure.shape, SliceShape(own, position, new_size))
             THEN [outcome |-> "ValueError", ret |-> combined, self |-> self, other |-> other]
             ELSE [outcome |-> "ok",
                   ret |-> [size |-> new_size,
                            structure |-> SetSlice(own, position, new_size,
                                                   Remap(other.structure, interned.map)),
                            palette |-> interned.palette],
                   self |-> self, other |-> other] :
                own \in {SetSlice(combined.structure, origin, self.size, self.structure)},
                interned \in {InternAll(self.palette, other.palette, << >>)}} : TRUE

\* Structure.combine: the outcome, the Structure returned and the two
\* operands after the call.  The combined Structure gets a copy of self's
\* palette list, the values of self's grid and a copy of other's grid, so
\* what is interned and written goes to the copies.
combine(self, other, position) ==
    LET end_pos == [k \in Axes |-> position[k] + other.size[k]]
        new_size == [k \in Axes |-> Max(self.size[k], end_pos[k])]
        combined == StructureInit(new_size, None)
        origin == <<0, 0, 0>>
        own_shape == SliceShape(combined.structure, origin, self.size)
    IN  IF \E k \in Axes : position[k] < 0
        THEN [outcome |-> "ValueError", ret |-> combined, self |-> self, other |-> other]
        ELSE IF ~Broadcastable(self.structure.shape, own_shape)
        THEN [outcome |-> "ValueError", ret |-> combined, self |-> self, other |-> other]
        ELSE CHOOSE result \in
            {IF ~Broadcastable(other.structure.shape, SliceShape(own, position, new_size))
             THEN [outcome |-> "ValueError", ret |-> combined, self |-> self, other |-> other]
             ELSE [outcome |-> "ok",
                   ret |-> [size |-> new_size,
                            structure |-> SetSlice(own, position, new_size,
                                                   Remap(other.structure, interned.map)),
                            palette |-> interned.palette],
                   self |-> self, other |-> other] :
                own \in {SetSlice(combined.structure, origin, self.size, self.structure)},
                interned \in {InternAll(self.palette, other.palette, << >>)}} : TRUE

(***************************************************************************)
(* The document as_nbt builds and load reads.  Entities are opaque blobs   *)
(* copied verbatim in both directions and are left out.                    *)
(***************************************************************************)
\* A list index i into a Python list of length n: negative indices count
\* from the end; -1 stands for "IndexError".
ListIndex(i, n) ==
    IF 0 <= i /\ i < n THEN i
    ELSE IF i < 0 /\ i >= 0 - n THEN i + n
    ELSE -1

\* The node of one state: isinstance(value, int) is tried first and holds
\* for bool as well, then str, and TagByte is what remains.
StateTag(v) ==
    IF v.t = "int" \/ v.t = "bool" THEN [key |-> v.key, tag |-> "Int", n |-> v.n, s |-> ""]
    ELSE IF v.t = "str" THEN [key |-> v.key, tag |-> "String", n |-> 0, s |-> v.s]
    ELSE [key |-> v.key, tag |-> "Byte", n |-> v.n, s |-> ""]

\* as_python() of one state node.
StateValue(node) ==
    IF node.tag = "String" THEN StrVal(node.key, node.s) ELSE IntVal(node.key, node.n)

\* One entry of block_palette.
PaletteTag(block) ==
    [name |-> block.identifier,
     states |-> [i \in 1..Len(block.states) |-> StateTag(block.states[i])],
     version |-> COMPABILITY_VERSION]

\* Structure._water_index: the palette afterwards and the index of water.
water_index(palette) ==
    IF \E i \in 1..Len(palette) : BlockEq(palette[i], WATER)
    THEN [palette |-> palette,
          ident |-> (CHOOSE i \in 1..Len(palette) :
                        /\ BlockEq(palette[i], WATER)
                        /\ \A j \in 1..(i - 1) : ~BlockEq(palette[j], WATER)) - 1]
    ELSE add_block_to_palette(palette, WATER)

\* The secondary layer of as_nbt, cell by cell in flattened order: the cell's
\* index selects a palette entry by list indexing, and a waterlogged entry
\* asks for the water index, which may extend the palette on the way.
RECURSIVE SecondaryLayer(_, _, _)
SecondaryLayer(data, palette, layer) ==
    IF Len(layer) = Len(data) THEN [outcome |-> "ok", palette |-> palette, layer |-> layer]
    ELSE LET i == ListIndex(data[Len(layer) + 1], Len(palette))
         IN  IF i < 0
             THEN [outcome |-> "IndexError", palette |-> palette, layer |-> layer]
             ELSE IF palette[i + 1].waterlogged
             THEN LET w == water_index(palette)
                  IN  SecondaryLayer(data, w.palette, Append(layer, w.ident))
             ELSE SecondaryLayer(data, palette, Append(layer, -1))

NoDoc ==
    [format_version |-> 0, size |-> <<0, 0, 0>>, block_indices |-> << << >>, << >> >>,
     block_palette |-> << >>, structure_world_origin |-> <<0, 0, 0>>]

\* Structure.as_nbt: the outcome, the Structure afterwards and the document.
as_nbt(s) ==
    CHOOSE result \in
        {IF sec.outcome = "ok"
         THEN [outcome |-> "ok",
               s |-> [s EXCEPT !.palette = sec.palette],
               doc |-> [format_version |-> 1,
                        size |-> s.size,
                        block_indices |-> <<s.structure.data, sec.layer>>,
                        block_palette |->
                            [i \in 1..Len(sec.palette) |-> PaletteTag(sec.palette[i])],
                        structure_world_origin |-> <<0, 0, 0>>]]
         ELSE [outcome |-> sec.outcome,
               s |-> [s EXCEPT !.palette = sec.palette],
               doc |-> NoDoc] :
            sec \in {SecondaryLayer(s.structure.data, s.palette, << >>)}} : TRUE

\* Structure.load: the outcome and the Structure returned.  The waterlogged
\* mask has one entry per cell and is read at the palette index.
load(d) ==
    LET size == d.size
        primary == d.block_indices[1]
        waterlogged_mask == [i \in 1..Len(d.block_indices[2]) |->
                                d.block_indices[2][i] # -1]
        none == StructureInit(<<0, 0, 0>>, None)
    IN  IF Len(primary) # Prod(size)
        THEN [outcome |-> "ValueError", ret |-> none]
        ELSE IF Len(d.block_palette) > Len(waterlogged_mask)
        THEN [outcome |-> "IndexError", ret |-> none]
        ELSE [outcome |-> "ok",
              ret |-> [size |-> size,
                       structure |-> [shape |-> size, data |-> primary],
                       palette |->
                           [i \in 1..Len(d.block_palette) |->
                               Block(d.block_palette[i].name,
                                     [j \in 1..Len(d.block_palette[i].states) |->
                                         StateValue(d.block_palette[i].states[j])],
                                     waterlogged_mask[i])]]]

(***************************************************************************)
(* The client: the arguments it draws and the calls it makes.              *)
(***************************************************************************)
Sizes == (0..MaxX) \X (1..MaxY) \X (1..MaxZ)

Fills == {None, StairsWL}

Coords == ((0 - MaxX)..MaxX) \X (0..(MaxY - 1)) \X (0..(MaxZ - 1))

Corners == ((0 - 1)..MaxX) \X (0..(MaxY - 1)) \X (0..(MaxZ - 1))

Positions ==
    (((0 - 1)..(MaxX - 1)) \X {0} \X {0}) \union ({0} \X {0} \X (1..(MaxZ - 1)))

OtherSizes == (1..MaxX) \X (1..MaxY) \X (1..MaxZ)

PlacedBlocks == {None, Stairs, StairsWL, STRUCTURE_VOID}

NoCall ==
    [op |-> "none", target |-> "struct", coord |-> <<0, 0, 0>>, coord2 |-> <<0, 0, 0>>,
     block |-> None, size |-> <<0, 0, 0>>, outcome |-> "ok", returns |-> "none",
     ret |-> None,
     operands |-> <<StructureInit(<<0, 0, 0>>, None), StructureInit(<<0, 0, 0>>, None)>>]

NoProbe == [op |-> "none", size |-> <<0, 0, 0>>, fill |-> None, suitable |-> TRUE,
            outcome |-> "ok", shape |-> <<0, 0, 0>>, value |-> 0, palette |-> << >>]

NoStructure == StructureInit(<<0, 0, 0>>, None)

\* struct = Structure(size, fill)
Init ==
    \E size \in Sizes, fill \in Fills :
        /\ struct = StructureInit(size, fill)
        /\ doc = NoDoc
        /\ loaded = [present |-> FALSE, s |-> NoStructure]
        /\ last = [NoCall EXCEPT !.op = "init", !.size = size, !.block = fill,
                                 !.returns = "new"]
        /\ probe = NoProbe
        /\ steps = 0

\* struct.get_block(c) or loaded.get_block(c)
GetBlock(target, c) ==
    /\ steps < MaxSteps
    /\ target = "loaded" => loaded.present
    /\ \E r \in {get_block(IF target = "struct" THEN struct ELSE loaded.s, c)} :
           last' = [NoCall EXCEPT !.op = "get_block", !.target = target, !.coord = c,
                                  !.outcome = r.outcome, !.ret = r.ret,
                                  !.returns = IF r.outcome = "ok" THEN "block" ELSE "raise"]
    /\ steps' = steps + 1
    /\ UNCHANGED <<struct, doc, loaded, probe>>

\* struct.set_block(c, block)
SetBlock(c, block) ==
    /\ steps < MaxSteps
    /\ \E r \in {set_block(struct, c, block)} :
           /\ struct' = r.s
           /\ last' = [NoCall EXCEPT !.op = "set_block", !.coord = c, !.block = block,
                                     !.outcome = r.outcome,
                                     !.returns = IF r.outcome = "ok" THEN "self" ELSE "raise"]
    /\ steps' = steps + 1
    /\ UNCHANGED <<doc, loaded, probe>>

\* struct.set_blocks(from, to, block)
SetBlocks(from, to, block) ==
    /\ steps < MaxSteps
    /\ \E r \in {set_blocks(struct, from, to, block)} :
           /\ struct' = r.s
           /\ last' = [NoCall EXCEPT !.op = "set_blocks", !.coord = from, !.coord2 = to,
                                     !.block = block, !.outcome = r.outcome,
                                     !.returns = IF r.outcome = "ok" THEN "self" ELSE "raise"]
    /\ steps' = steps + 1
    /\ UNCHANGED <<doc, loaded, probe>>

\* struct.resize(size, fill)
Resize(size, fill) ==
    /\ steps < MaxSteps
    /\ struct' = resize(struct, size, fill)
    /\ last' = [NoCall EXCEPT !.op = "resize", !.size = size, !.block = fill,
                              !.returns = "self"]
    /\ steps' = steps + 1
    /\ UNCHANGED <<doc, loaded, probe>>

\* struct = struct.combine(Structure(size, fill), position)            ("self")
\* struct = Structure(size, fill).combine(struct, position)           ("other")
Combine(role, size, fill, position) ==
    /\ steps < MaxSteps
    /\ \E r \in {IF role = "self"
                THEN combine(struct, StructureInit(size, fill), position)
                ELSE combine(StructureInit(size, fill), struct, position)} :
           /\ struct' = IF r.outcome = "ok" THEN r.ret ELSE struct
           /\ last' = [NoCall EXCEPT !.op = "combine", !.target = role, !.coord = position,
                                     !.size = size, !.block = fill, !.outcome = r.outcome,
                                     !.returns = IF r.outcome = "ok" THEN "new" ELSE "raise",
                                     !.operands = <<r.self, r.other>>]
    /\ steps' = steps + 1
    /\ UNCHANGED <<doc, loaded, probe>>

\* struct.dump(file): as_nbt, then the document is written out.
Dump ==
    /\ steps < MaxSteps
    /\ \E r \in {as_nbt(struct)} :
           /\ struct' = r.s
           /\ doc' = IF r.outcome = "ok" THEN r.doc ELSE doc
           /\ last' = [NoCall EXCEPT !.op = "dump", !.outcome = r.outcome,
                                     !.returns = IF r.outcome = "ok" THEN "none" ELSE "raise"]
    /\ steps' = steps + 1
    /\ UNCHANGED <<loaded, probe>>

\* struct.dump(file) once more, directly after a dump that succeeded.
DumpAgain ==
    /\ last.op = "dump"
    /\ last.outcome = "ok"
    /\ last.target # "again"
    /\ \E r \in {as_nbt(struct)} :
           /\ struct' = r.s
           /\ doc' = IF r.outcome = "ok" THEN r.doc ELSE doc
           /\ last' = [NoCall EXCEPT !.op = "dump", !.target = "again",
                                     !.outcome = r.outcome,
                                     !.returns = IF r.outcome = "ok" THEN "none" ELSE "raise"]
    /\ UNCHANGED <<loaded, probe, steps>>

\* loaded = Structure.load(file) on the document last dumped.
Load ==
    /\ doc # NoDoc
    /\ last.op # "load"
    /\ \E r \in {load(doc)} :
           /\ loaded' = [present |-> r.outcome = "ok", s |-> r.ret]
           /\ last' = [NoCall EXCEPT !.op = "load", !.target = "dump", !.outcome = r.outcome,
                                     !.returns = IF r.outcome = "ok" THEN "new" ELSE "raise"]
    /\ UNCHANGED <<struct, doc, probe, steps>>

\* Files this library did not write: one cell, any small index in it; and
\* one whose index list is longer than its size allows.
Files ==
    {[format_version |-> 1, size |-> <<1, 1, 1>>,
      block_indices |-> << <<i>>, <<0 - 1>> >>,
      block_palette |-> palette,
      structure_world_origin |-> <<0, 0, 0>>] :
        i \in (0 - 2)..1, palette \in {<< >>, <<PaletteTag(Air)>>}}
    \union
    {[format_version |-> 1, size |-> <<1, 1, 1>>,
      block_indices |-> << <<0, 0>>, <<0 - 1, 0 - 1>> >>,
      block_palette |-> <<PaletteTag(Air)>>,
      structure_world_origin |-> <<0, 0, 0>>]}

\* loaded = Structure.load(file) on such a file.
LoadFile(d) ==
    /\ steps < MaxSteps
    /\ \E r \in {load(d)} :
           /\ loaded' = [present |-> r.outcome = "ok", s |-> r.ret]
           /\ last' = [NoCall EXCEPT !.op = "load", !.target = "file", !.size = d.size,
                                     !.outcome = r.outcome,
                                     !.returns = IF r.outcome = "ok" THEN "new" ELSE "raise"]
    /\ steps' = steps + 1
    /\ UNCHANGED <<struct, doc, probe>>

Next ==
    \/ \E target \in {"struct", "loaded"}, c \in Coords : GetBlock(target, c)
    \/ \E c \in Coords, block \in PlacedBlocks : SetBlock(c, block)
    \/ \E from \in Corners, to \in Corners, block \in {StairsWL} :
          SetBlocks(from, to, block)
    \/ \E size \in Sizes, fill \in {None, Air} : Resize(size, fill)
    \/ \E role \in {"self", "other"}, size \in OtherSizes, fill \in {None, Stairs},
          position \in Positions : Combine(role, size, fill, position)
    \/ Dump
    \/ DumpAgain
    \/ Load
    \/ \E d \in Files : LoadFile(d)

Spec == Init /\ [][Next]_vars

(***************************************************************************)
(* The size specification: a client that checks sizes and constructs       *)
(* Structures around STRUCTURE_MAX_SIZE.  The grid np.full / np.zeros      *)
(* builds is uniform and is kept as its shape and its value.               *)
(***************************************************************************)
SizeArgs ==
    {0, STRUCTURE_MAX_SIZE[1] - 1, STRUCTURE_MAX_SIZE[1], STRUCTURE_MAX_SIZE[1] + 1}
    \X {0, STRUCTURE_MAX_SIZE[2] - 1, STRUCTURE_MAX_SIZE[2], STRUCTURE_MAX_SIZE[2] + 1}
    \X {0, STRUCTURE_MAX_SIZE[3] - 1, STRUCTURE_MAX_SIZE[3], STRUCTURE_MAX_SIZE[3] + 1}

InitSize ==
    /\ struct = NoStructure
    /\ doc = NoDoc
    /\ loaded = [present |-> FALSE, s |-> NoStructure]
    /\ last = NoCall
    /\ probe = NoProbe
    /\ steps = 0

\* has_suitable_size(size)
CheckSize(size) ==
    /\ probe' = [NoProbe EXCEPT !.op = "has_suitable_size", !.size = size,
                                !.suitable = has_suitable_size(size)]
    /\ UNCHANGED <<struct, doc, loaded, last, steps>>

\* Structure(size, fill)
Construct(size, fill) ==
    /\ probe' = [NoProbe EXCEPT !.op = "init", !.size = size, !.fill = fill,
                                !.outcome = InitOutcome(size, fill),
                                !.shape = size, !.value = InitValue(fill),
                                !.palette = InitPalette(fill)]
    /\ UNCHANGED <<struct, doc, loaded, last, steps>>

NextSize ==
    \/ \E size \in SizeArgs : CheckSize(size)
    \/ \E size \in SizeArgs, fill \in {None, Air} : Construct(size, fill)

SpecSize == InitSize /\ [][NextSize]_vars

(***************************************************************************)
(* Block as a value: its text form and its equality.  Here a text is a     *)
(* sequence of pieces, a piece being one character or a word (a key, a     *)
(* string value, a part of an identifier) that holds no punctuation; an    *)
(* identifier is such a text too, e.g. <<"minecraft", ":", "wool">>.       *)
(***************************************************************************)
\* ":" in identifier
HasColon(identifier) == \E i \in 1..Len(identifier) : identifier[i] = ":"

\* The position of the first ":" in identifier.
FirstColon(identifier) ==
    CHOOSE i \in 1..Len(identifier) :
        /\ identifier[i] = ":"
        /\ \A j \in 1..(i - 1) : identifier[j] # ":"

\* Block.namespace_and_name: identifier.split(":", 1), or (None, identifier).
namespace_and_name(block) ==
    IF HasColon(block.identifier)
    THEN [has_ns |-> TRUE,
          ns |-> SubSeq(block.identifier, 1, FirstColon(block.identifier) - 1),
          name |-> SubSeq(block.identifier, FirstColon(block.identifier) + 1,
                          Len(block.identifier))]
    ELSE [has_ns |-> FALSE, ns |-> << >>, name |-> block.identifier]

\* str(n) for an int n: the decimal digits, with a sign when negative.
DigitChars == <<"0", "1", "2", "3", "4", "5", "6", "7", "8", "9">>

RECURSIVE Digits(_)
Digits(n) ==
    IF n < 10 THEN <<DigitChars[n + 1]>>
    ELSE Digits(n \div 10) \o <<DigitChars[(n % 10) + 1]>>

IntStr(n) == IF n < 0 THEN <<"-">> \o Digits(0 - n) ELSE Digits(n)

\* The loop of stringify over states.items(): what it appends for the
\* states from position i on, or the ValueError it raises on the way.
RECURSIVE StatesLoop(_, _, _)
StatesLoop(states, i, result) ==
    IF i > Len(states) THEN [outcome |-> "ok", result |-> result]
    ELSE LET v == states[i]
             keyed == result \o <<"\"", v.key, "\"", "=">>
         IN  IF v.t = "str"
             THEN StatesLoop(states, i + 1, keyed \o <<"\"", v.s, "\"">>)
             ELSE IF v.t = "bool"
             THEN StatesLoop(states, i + 1,
                             keyed \o <<IF v.n = 1 THEN "true" ELSE "false">>)
             ELSE IF v.t = "int"
             THEN StatesLoop(states, i + 1, keyed \o IntStr(v.n))
             ELSE [outcome |-> "ValueError", result |-> << >>]

\* Block.stringify: the outcome and the text returned.
stringify(block, with_namespace, with_states) ==
    LET nn == namespace_and_name(block)
        head == (IF with_namespace /\ nn.has_ns THEN nn.ns \o <<":">> ELSE << >>)
                    \o nn.name
    IN  IF with_states
        THEN LET r == StatesLoop(block.states, 1, head \o <<" ", "[">>)
             IN  IF r.outcome = "ok"
                 THEN [outcome |-> "ok", result |-> r.result \o <<"]">>]
                 ELSE r
        ELSE [outcome |-> "ok", result |-> head]

\* The Blocks the client of the Block specification builds.
BlockIds ==
    {<<"wool">>, <<"minecraft", ":", "wool">>, <<"a", ":", "b", ":", "c">>, <<":", "wool">>}

StateLists ==
    {<< >>,
     <<StrVal("color", "red")>>,
     <<BoolVal("bit", TRUE)>>,
     <<IntVal("bit", 1)>>,
     <<IntVal("bit", 0 - 12)>>,
     <<FloatVal("bit", 1)>>,
     <<BoolVal("bit", FALSE), IntVal("rotation", 12)>>,
     <<IntVal("rotation", 12), BoolVal("bit", FALSE)>>,
     <<StrVal("color", "red"), FloatVal("bit", 1)>>}

Blocks ==
    {Block(id, states, wl) : id \in BlockIds, states \in StateLists, wl \in BOOLEAN}

NoBlockProbe ==
    [op |-> "none", block |-> None, other |-> None, with_namespace |-> TRUE,
     with_states |-> TRUE, outcome |-> "ok", result |-> << >>, equal |-> FALSE,
     palette |-> << >>, ident |-> 0]

\* The client holds two Blocks and the two flags of a stringify call.
InitBlock ==
    /\ struct = NoStructure
    /\ doc = NoDoc
    /\ loaded = [present |-> FALSE, s |-> NoStructure]
    /\ last = NoCall
    /\ \E block \in Blocks, other \in Blocks,
          with_namespace \in BOOLEAN, with_states \in BOOLEAN :
          probe = [NoBlockProbe EXCEPT !.block = block, !.other = other,
                                       !.with_namespace = with_namespace,
                                       !.with_states = with_states]
    /\ steps = 0

\* block.stringify(with_namespace=..., with_states=...)
Stringify ==
    /\ probe.op = "none"
    /\ \E r \in {stringify(probe.block, probe.with_namespace, probe.with_states)} :
           probe' = [probe EXCEPT !.op = "stringify", !.outcome = r.outcome,
                                  !.result = r.result]
    /\ UNCHANGED <<struct, doc, loaded, last, steps>>

\* block == other
Compare ==
    /\ probe.op = "none"
    /\ probe' = [probe EXCEPT !.op = "eq", !.equal = BlockEq(probe.block, probe.other)]
    /\ UNCHANGED <<struct, doc, loaded, last, steps>>

\* _add_block_to_palette(other) on a Structure whose palette is [block]
Intern ==
    /\ probe.op = "none"
    /\ \E r \in {add_block_to_palette(<<probe.block>>, probe.other)} :
           probe' = [probe EXCEPT !.op = "intern", !.palette = r.palette,
                                  !.ident = r.ident]
    /\ UNCHANGED <<struct, doc, loaded, last, steps>>

NextBlock ==
    \/ Stringify
    \/ Compare
    \/ Intern

SpecBlock == InitBlock /\ [][NextBlock]_vars

(***************************************************************************)
(* The schema variant with per-block extra data (src/TrimMCStruct/main.py).*)
(* A Block has namespace, base_name, states and extra_data; all four are   *)
(* dataclass fields and take part in ==.  Block.__init__ has the default   *)
(* argument extra_data = {}: every Block built without extra data, as      *)
(* from_identifier builds them, refers to that one dict object, whose      *)
(* content is default_extra below.  A dict is a set of <<key, value>>      *)
(* pairs with distinct keys; an ordered mapping of a document is a         *)
(* sequence of such pairs.  Texts are sequences of pieces as above.        *)
(***************************************************************************)
\* The extra_data of a Block: the shared default dict, or a dict of its own.
DefaultExtra == [ref |-> "default", items |-> {}]

OwnExtra(items) == [ref |-> "own", items |-> items]

\* Block(namespace, base_name, states, extra_data)
TrimBlock(namespace, base_name, states, extra) ==
    [namespace |-> namespace, base_name |-> base_name, states |-> states,
     extra |-> extra]

\* block.extra_data, read now.
ExtraOf(block, default_extra) ==
    IF block.extra.ref = "default" THEN default_extra ELSE block.extra.items

\* dict.update
DictUpdate(d, e) == {p \in d : \A q \in e : q[1] # p[1]} \union e

\* The dataclass-generated __eq__ of the variant: all four fields.
TrimBlockEq(b, c, default_extra) ==
    /\ b.namespace = c.namespace
    /\ b.base_name = c.base_name
    /\ StatesEq(b.states, c.states)
    /\ ExtraOf(b, default_extra) = ExtraOf(c, default_extra)

\* Python's None where a Block of the variant is expected.
TrimNone == TrimBlock(<<"<None>">>, << >>, << >>, DefaultExtra)

\* Block.from_identifier(identifier, **states)
from_identifier(identifier, states) ==
    IF HasColon(identifier)
    THEN TrimBlock(SubSeq(identifier, 1, FirstColon(identifier) - 1),
                   SubSeq(identifier, FirstColon(identifier) + 1, Len(identifier)),
                   states, DefaultExtra)
    ELSE TrimBlock(<<"minecraft">>, identifier, states, DefaultExtra)

\* Block.get_identifier
get_identifier(block) == block.namespace \o <<":">> \o block.base_name

\* Structure.__init__ of the variant.
TrimStructureInit(size, fill) ==
    [size |-> size,
     structure_indecis |-> np_full(size, IF fill = TrimNone THEN -1 ELSE 0),
     palette |-> IF fill = TrimNone THEN << >> ELSE <<fill>>,
     special_block_indices |-> << >>]

\* Structure._add_block_to_palette of the variant.
trim_add_block_to_palette(palette, block, default_extra) ==
    IF block = TrimNone THEN [palette |-> palette, ident |-> -1]
    ELSE IF \E i \in 1..Len(palette) : TrimBlockEq(palette[i], block, default_extra)
    THEN [palette |-> palette,
          ident |-> (CHOOSE i \in 1..Len(palette) :
                        /\ TrimBlockEq(palette[i], block, default_extra)
                        /\ \A j \in 1..(i - 1) :
                              ~TrimBlockEq(palette[j], block, default_extra)) - 1]
    ELSE [palette |-> Append(palette, block), ident |-> Len(palette)]

\* Structure.set_block of the variant: the palette, then the test of
\* block.extra_data (an AttributeError for None), then the grid.
trim_set_block(s, c, block, default_extra) ==
    LET r == trim_add_block_to_palette(s.palette, block, default_extra)
        t == [s EXCEPT !.palette = r.palette,
                       !.special_block_indices =
                           IF ExtraOf(block, default_extra) # {}
                           THEN Append(@, r.ident) ELSE @]
    IN  IF block = TrimNone THEN [outcome |-> "AttributeError", s |-> s]
        ELSE IF IndexOK(s.structure_indecis.shape, c)
        THEN [outcome |-> "ok",
              s |-> [t EXCEPT !.structure_indecis = SetItem(@, c, r.ident)]]
        ELSE [outcome |-> "IndexError", s |-> t]

\* np.rot90(m, k, axes=(0, 1))
rot90(arr, k) ==
    LET n0 == arr.shape[1]
        n1 == arr.shape[2]
        shape == IF k = 2 THEN arr.shape ELSE <<n1, n0, arr.shape[3]>>
    IN  [shape |-> shape,
         data |-> [i \in 1..Prod(shape) |->
                     LET c == Unflat(shape, i)
                     IN  arr.data[Flat(arr.shape,
                            IF k = 1 THEN <<c[2], n1 - 1 - c[1], c[3]>>
                            ELSE IF k = 2 THEN <<n0 - 1 - c[1], n1 - 1 - c[2], c[3]>>
                            ELSE <<n0 - 1 - c[2], c[1], c[3]>>)]]]

\* m[::-1, :, :] and m[:, :, ::-1]
Flip(arr, axis) ==
    [arr EXCEPT !.data =
        [i \in 1..Prod(arr.shape) |->
            LET c == Unflat(arr.shape, i)
            IN  arr.data[Flat(arr.shape,
                    [k \in Axes |-> IF k = axis THEN arr.shape[k] - 1 - c[k] ELSE c[k]])]]]

\* Structure.rotate: only the grid is rebound.
rotate(s, by) ==
    IF by = 90 THEN [outcome |-> "ok",
                     s |-> [s EXCEPT !.structure_indecis = rot90(@, 1)]]
    ELSE IF by = 180 THEN [outcome |-> "ok",
                           s |-> [s EXCEPT !.structure_indecis = rot90(@, 2)]]
    ELSE IF by = 270 THEN [outcome |-> "ok",
                           s |-> [s EXCEPT !.structure_indecis = rot90(@, 3)]]
    ELSE [outcome |-> "ValueError", s |-> s]

\* Structure.mirror (axis is one letter).
mirror(s, axis) ==
    IF axis \in {"X", "x"}
    THEN [outcome |-> "ok", s |-> [s EXCEPT !.structure_indecis = Flip(@, 1)]]
    ELSE IF axis \in {"Z", "z"}
    THEN [outcome |-> "ok", s |-> [s EXCEPT !.structure_indecis = Flip(@, 3)]]
    ELSE [outcome |-> "ValueError", s |-> s]

\* int(text) for the decimal text of an integer.
DigitValue(ch) == (CHOOSE d \in 1..10 : DigitChars[d] = ch) - 1

RECURSIVE ParseDigits(_, _)
ParseDigits(text, acc) ==
    IF Len(text) = 0 THEN acc
    ELSE ParseDigits(Tail(text), acc * 10 + DigitValue(Head(text)))

ParseInt(text) ==
    IF Head(text) = "-" THEN 0 - ParseDigits(Tail(text), 0) ELSE ParseDigits(text, 0)

\* The dict(...) of dump's block_position_data: one item per special index
\* in order, a later item replacing an earlier one with the same key.
RECURSIVE PositionData(_, _, _, _)
PositionData(special, palette, default_extra, acc) ==
    IF Len(special) = 0 THEN acc
    ELSE LET key == IntStr(Head(special))
             item == <<key, ExtraOf(palette[ListIndex(Head(special), Len(palette)) + 1],
                                    default_extra)>>
             at == {i \in 1..Len(acc) : acc[i][1] = key}
         IN  PositionData(Tail(special), palette, default_extra,
                          IF at = {} THEN Append(acc, item)
                          ELSE [i \in 1..Len(acc) |-> IF i \in at THEN item ELSE acc[i]])

NoTrimDoc ==
    [size |-> <<0, 0, 0>>, block_indices |-> << << >>, << >> >>,
     block_palette |-> << >>, block_position_data |-> << >>]

\* Structure.dump of the variant: the document written.
trim_dump(s, default_extra) ==
    [size |-> s.size,
     block_indices |-> <<s.structure_indecis.data,
                         [i \in 1..Len(s.structure_indecis.data) |-> -1]>>,
     block_palette |->
         [i \in 1..Len(s.palette) |->
             [name |-> get_identifier(s.palette[i]),
              states |-> [j \in 1..Len(s.palette[i].states) |->
                             StateTag(s.palette[i].states[j])],
              version |-> COMPABILITY_VERSION]],
     block_position_data |->
         PositionData(s.special_block_indices, s.palette, default_extra, << >>)]

\* The loop of load over block_position_data.items(): add_extra_data on the
\* palette entry at int(key), which updates the dict that entry refers to,
\* and the index appended to _special_block_indices.
RECURSIVE ExtraLoop(_, _, _, _)
ExtraLoop(items, palette, default_extra, special) ==
    IF Len(items) = 0
    THEN [outcome |-> "ok", default_extra |-> default_extra, special |-> special]
    ELSE LET index == ParseInt(Head(items)[1])
         IN  IF ListIndex(index, Len(palette)) < 0
             THEN [outcome |-> "IndexError", default_extra |-> default_extra,
                   special |-> special]
             ELSE ExtraLoop(Tail(items), palette,
                            DictUpdate(default_extra, Head(items)[2]),
                            Append(special, index))

\* Structure.load of the variant: the outcome, the Structure returned and
\* the content of the shared default dict afterwards.
trim_load(d, default_extra) ==
    LET palette == [i \in 1..Len(d.block_palette) |->
                       from_identifier(d.block_palette[i].name,
                                       [j \in 1..Len(d.block_palette[i].states) |->
                                           StateValue(d.block_palette[i].states[j])])]
        r == ExtraLoop(d.block_position_data, palette, default_extra, << >>)
        none == TrimStructureInit(<<0, 0, 0>>, TrimNone)
    IN  IF Len(d.block_indices[1]) # Prod(d.size)
        THEN [outcome |-> "ValueError", s |-> none, default_extra |-> default_extra]
        ELSE IF r.outcome # "ok"
        THEN [outcome |-> r.outcome, s |-> none, default_extra |-> r.default_extra]
        ELSE [outcome |-> "ok",
              s |-> [size |-> d.size,
                     structure_indecis |-> [shape |-> d.size, data |-> d.block_indices[1]],
                     palette |-> palette,
                     special_block_indices |-> r.special],
              default_extra |-> r.default_extra]

\* The client of the variant: its Blocks, sizes, coordinates and files.
Chest == TrimBlock(<<"minecraft">>, <<"chest">>, << >>, DefaultExtra)

ChestA == TrimBlock(<<"minecraft">>, <<"chest">>, << >>, OwnExtra({<<"Items", 1>>}))

ChestB == TrimBlock(<<"minecraft">>, <<"chest">>, << >>, OwnExtra({<<"Items", 2>>}))

Stone == TrimBlock(<<"minecraft">>, <<"stone">>, << >>, DefaultExtra)

TrimBlocks == {TrimNone, Chest, ChestA, ChestB, Stone}

TrimSizes == {<<1, 2, 1>>, <<2, 1, 1>>, <<2, 2, 1>>}

TrimCoords == {<<0, 0, 0>>, <<1, 0, 0>>, <<0, 1, 0>>}

TrimPalette ==
    <<[name |-> <<"minecraft", ":", "stone">>, states |-> << >>,
       version |-> COMPABILITY_VERSION],
      [name |-> <<"chest">>, states |-> << >>, version |-> COMPABILITY_VERSION]>>

TrimFiles ==
    {[size |-> <<2, 1, 1>>, block_indices |-> << <<0, 1>>, <<0 - 1, 0 - 1>> >>,
      block_palette |-> TrimPalette, block_position_data |-> data] :
        data \in {<< >>,
                  << <<IntStr(1), {<<"Items", 1>>}>> >>,
                  << <<IntStr(1), {<<"Items", 1>>}>>, <<IntStr(0), {<<"Text", 7>>}>> >>,
                  << <<IntStr(2), {<<"Items", 1>>}>> >>}}

NoTrimProbe ==
    [op |-> "none", s |-> TrimStructureInit(<<0, 0, 0>>, TrimNone), default_extra |-> {},
     doc |-> NoTrimDoc, file |-> NoTrimDoc, block |-> TrimNone, coord |-> <<0, 0, 0>>,
     outcome |-> "ok"]

\* s = Structure(size, fill)
InitTrim ==
    /\ struct = NoStructure
    /\ doc = NoDoc
    /\ loaded = [present |-> FALSE, s |-> NoStructure]
    /\ last = NoCall
    /\ \E size \in TrimSizes, fill \in {TrimNone, ChestA} :
          probe = [NoTrimProbe EXCEPT !.op = "init", !.s = TrimStructureInit(size, fill),
                                      !.block = fill]
    /\ steps = 0

\* s.set_block(c, block)
TrimSetBlock(c, block) ==
    /\ steps < MaxTrimSteps
    /\ \E r \in {trim_set_block(probe.s, c, block, probe.default_extra)} :
           probe' = [probe EXCEPT !.op = "set_block", !.s = r.s, !.block = block,
                                  !.coord = c, !.outcome = r.outcome]
    /\ steps' = steps + 1
    /\ UNCHANGED <<struct, doc, loaded, last>>

\* s.rotate(by)
TrimRotate(by) ==
    /\ steps < MaxTrimSteps
    /\ \E r \in {rotate(probe.s, by)} :
           probe' = [probe EXCEPT !.op = "rotate", !.s = r.s, !.outcome = r.outcome]
    /\ steps' = steps + 1
    /\ UNCHANGED <<struct, doc, loaded, last>>

\* s.mirror(axis)
TrimMirror(axis) ==
    /\ steps < MaxTrimSteps
    /\ \E r \in {mirror(probe.s, axis)} :
           probe' = [probe EXCEPT !.op = "mirror", !.s = r.s, !.outcome = r.outcome]
    /\ steps' = steps + 1
    /\ UNCHANGED <<struct, doc, loaded, last>>

\* s.dump(file)
TrimDump ==
    /\ steps < MaxTrimSteps
    /\ probe' = [probe EXCEPT !.op = "dump", !.outcome = "ok",
                              !.doc = trim_dump(probe.s, probe.default_extra)]
    /\ steps' = steps + 1
    /\ UNCHANGED <<struct, doc, loaded, last>>

\* s = Structure.load(file); s is kept when load raises.
TrimLoad(d) ==
    /\ steps < MaxTrimSteps
    /\ \E r \in {trim_load(d, probe.default_extra)} :
           probe' = [probe EXCEPT !.op = "load", !.file = d, !.outcome = r.outcome,
                                  !.s = IF r.outcome = "ok" THEN r.s ELSE @,
                                  !.default_extra = r.default_extra]
    /\ steps' = steps + 1
    /\ UNCHANGED <<struct, doc, loaded, last>>

NextTrim ==
    \/ \E c \in TrimCoords, block \in TrimBlocks : TrimSetBlock(c, block)
    \/ \E by \in {90, 180, 270, 45} : TrimRotate(by)
    \/ \E axis \in {"X", "z", "y"} : TrimMirror(axis)
    \/ TrimDump
    \/ \E d \in TrimFiles : TrimLoad(d)

SpecTrim == InitTrim /\ [][NextTrim]_vars

(***************************************************************************)
(* Vocabulary of the properties.                                           *)
(***************************************************************************)
\* The coordinates inside the grid of s.
Cells(s) == (0..(s.size[1] - 1)) \X (0..(s.size[2] - 1)) \X (0..(s.size[3] - 1))

InGrid(s, c) == \A k \in Axes : 0 <= c[k] /\ c[k] < s.size[k]

\* c lies in the box from f to t, end points included.
InBox(c, f, t) == \A k \in Axes : f[k] <= c[k] /\ c[k] <= t[k]

\* The two operands of the combine recorded in call, made on Structure s.
CombineSelf(call, s) ==
    IF call.target = "self" THEN s ELSE StructureInit(call.size, call.block)

CombineOther(call, s) ==
    IF call.target = "self" THEN StructureInit(call.size, call.block) ELSE s

\* c lies in the box of a Structure of the given size placed at position.
InPlaced(c, position, size) ==
    \A k \in Axes : position[k] <= c[k] /\ c[k] < position[k] + size[k]

\* The items joined by the separator sep, as one text.
RECURSIVE Join(_, _)
Join(items, sep) ==
    IF Len(items) = 0 THEN << >>
    ELSE IF Len(items) = 1 THEN items[1]
    ELSE items[1] \o sep \o Join(Tail(items), sep)

\* The text of one state as the setblock syntax writes it.
StateItem(v) ==
    <<"\"", v.key, "\"", "=">> \o
        (IF v.t = "str" THEN <<"\"", v.s, "\"">>
         ELSE IF v.t = "bool" THEN <<IF v.n = 1 THEN "true" ELSE "false">>
         ELSE IntStr(v.n))

\* The keys of a states mapping and the value under a key.
Keys(d) == {d[i].key : i \in 1..Len(d)}

ValueAt(d, key) == d[CHOOSE i \in 1..Len(d) : d[i].key = key]

\* Two states mappings are equal: the same keys, equal values under each.
SameMapping(d, e) ==
    /\ Keys(d) = Keys(e)
    /\ \A key \in Keys(d) : ValueEq(ValueAt(d, key), ValueAt(e, key))

\* A document load is to refuse: the number of primary indices is not the
\* product of the size, or an index other than -1 is outside the palette.
Malformed(d) ==
    \/ Len(d.block_indices[1]) # Prod(d.size)
    \/ \E i \in 1..Len(d.block_indices[1]) :
          /\ d.block_indices[1][i] # -1
          /\ (d.block_indices[1][i] < 0 \/ d.block_indices[1][i] >= Len(d.block_palette))

\* p is a prefix of q.
IsPrefix(p, q) == Len(p) <= Len(q) /\ SubSeq(q, 1, Len(p)) = p

\* The node type the claim gives a state value: string, int, or byte for
\* a boolean.
VariantTag(v) ==
    IF v.t = "str" THEN "String" ELSE IF v.t = "bool" THEN "Byte" ELSE "Int"

\* Two Blocks of the variant with the same identifier and the same states.
SameIdentifierAndStates(b, c) ==
    /\ get_identifier(b) = get_identifier(c)
    /\ SameMapping(b.states, c.states)

\* The keys of an ordered mapping of a document, and the payload of a key.
DataKeys(data) == {data[i][1] : i \in 1..Len(data)}

Payload(data, key) == data[CHOOSE i \in 1..Len(data) : data[i][1] = key][2]

\* The Structure the last get_block was called on.
Queried == IF last.target = "loaded" THEN loaded.s ELSE struct

NoDuplicates(palette) ==
    \A i \in 1..Len(palette), j \in 1..Len(palette) :
        i # j => ~BlockEq(palette[i], palette[j])

ValidIndices(s) ==
    \A i \in 1..Len(s.structure.data) :
        s.structure.data[i] = -1
        \/ (0 <= s.structure.data[i] /\ s.structure.data[i] < Len(s.palette))

\* What the caller of set_block / a fill expects to read back for block.
Expected(block) == IF block = None THEN STRUCTURE_VOID ELSE block

\* s and t agree in size and, cell by cell, in the Block get_block returns.
SameBlocks(s, t) ==
    /\ s.size = t.size
    /\ \A c \in Cells(s) :
          /\ get_block(s, c).outcome = "ok"
          /\ get_block(t, c).outcome = "ok"
          /\ BlockEq(get_block(s, c).ret, get_block(t, c).ret)

(***************************************************************************)
(* C1.  dump followed by load succeeds and gives back a Structure of the   *)
(* same size whose get_block equals the original's at every in-grid        *)
(* coordinate, waterlogged flag included.  Stated for the load that        *)
(* directly follows a dump that succeeded.                                 *)
(***************************************************************************)
C1_RoundTrip ==
    [][(/\ last.op = "dump"
        /\ last.outcome = "ok"
        /\ last'.op = "load"
        /\ last'.target = "dump")
        => (/\ last'.outcome = "ok"
            /\ loaded'.present
            /\ SameBlocks(struct, loaded'.s))]_vars

(***************************************************************************)
(* C2.  The palette never holds two entries that are equal under Block     *)
(* equality, and set_block with a block equal to an existing entry leaves  *)
(* the palette as it is and stores that entry's index.                     *)
(***************************************************************************)
C2_PaletteDedup ==
    /\ [](NoDuplicates(struct.palette))
    /\ [][(/\ last'.op = "set_block"
           /\ last'.block # None
           /\ InPalette(struct.palette, last'.block))
          => (/\ struct'.palette = struct.palette
              /\ InGrid(struct, last'.coord)
                    => /\ GetItem(struct'.structure, last'.coord) >= 0
                       /\ BlockEq(struct.palette[GetItem(struct'.structure, last'.coord) + 1],
                                  last'.block)
                       /\ \A j \in 1..GetItem(struct'.structure, last'.coord) :
                             ~BlockEq(struct.palette[j], last'.block))]_vars

\* A block that was in the palette before has been placed again.
C2_Witness ==
    /\ last.op = "set_block"
    /\ last.outcome = "ok"
    /\ last.block # None
    /\ Len(struct.palette) >= 2
    /\ BlockEq(struct.palette[1], last.block)

(***************************************************************************)
(* C3.  Every cell of the index grid is -1 or an index into the palette.   *)
(***************************************************************************)
C3_ValidIndices == ValidIndices(struct)

\* A combine has produced a grid with void cells and two kinds of blocks.
C3_Witness ==
    /\ last.op = "combine"
    /\ last.outcome = "ok"
    /\ \E i, j, k \in 1..Len(struct.structure.data) :
          /\ struct.structure.data[i] = -1
          /\ struct.structure.data[j] = 0
          /\ struct.structure.data[k] = 1

(***************************************************************************)
(* C4.  Constructing a Structure with a dimension above the maximum        *)
(* (64, 384, 64) fails with ValueError; constructing with exactly the      *)
(* maximum succeeds.                                                       *)
(***************************************************************************)
C4_OversizedRejected ==
    probe.op = "init"
    => /\ (\E k \in Axes : probe.size[k] > STRUCTURE_MAX_SIZE[k])
             => probe.outcome = "ValueError"
       /\ probe.size = STRUCTURE_MAX_SIZE => probe.outcome = "ok"

(***************************************************************************)
(* C5.  has_suitable_size(size) is true exactly when every component of    *)
(* size is at most the corresponding component of (64, 384, 64): true for  *)
(* the maximum itself, false for (65, 0, 0).                               *)
(***************************************************************************)
C5_SuitableSize ==
    probe.op = "has_suitable_size"
    => /\ probe.suitable
             <=> (probe.size[1] <= 64 /\ probe.size[2] <= 384 /\ probe.size[3] <= 64)
       /\ probe.size = <<64, 384, 64>> => probe.suitable
       /\ probe.size = <<65, 0, 0>> => ~probe.suitable

\* A size that exceeds the maximum on one axis only has been checked.
C5_Witness ==
    /\ probe.op = "has_suitable_size"
    /\ probe.size = <<65, 0, 0>>
    /\ ~probe.suitable

(***************************************************************************)
(* C6.  A newly constructed Structure(size, fill) has every cell -1 and an *)
(* empty palette when fill is None, and otherwise every cell 0 and the     *)
(* palette [fill].                                                         *)
(***************************************************************************)
C6_FreshStructure ==
    last.op = "init"
    => /\ struct.size = last.size
       /\ struct.structure.shape = last.size
       /\ Len(struct.structure.data) = Prod(last.size)
       /\ IF last.block = None
          THEN /\ \A c \in Cells(struct) : GetItem(struct.structure, c) = -1
               /\ struct.palette = << >>
          ELSE /\ \A c \in Cells(struct) : GetItem(struct.structure, c) = 0
               /\ struct.palette = <<last.block>>

\* A Structure of several cells has been constructed with a fill block.
C6_Witness ==
    /\ last.op = "init"
    /\ last.block # None
    /\ Prod(struct.size) >= 2

(***************************************************************************)
(* C7.  For an in-grid coordinate, get_block returns the palette entry at  *)
(* the cell's index when that is a valid palette index, and the            *)
(* structure-void Block when the index is -1 or outside the palette.       *)
(***************************************************************************)
C7_GetBlockResolves ==
    (last.op = "get_block" /\ InGrid(Queried, last.coord))
    => /\ last.outcome = "ok"
       /\ LET i == GetItem(Queried.structure, last.coord)
          IN  IF 0 <= i /\ i < Len(Queried.palette)
              THEN last.ret = Queried.palette[i + 1]
              ELSE last.ret = STRUCTURE_VOID

(***************************************************************************)
(* C8.  get_block with a coordinate outside the grid fails with            *)
(* IndexError; it is never wrapped or clamped to a cell of the grid.       *)
(***************************************************************************)
C8_OutOfGridRaises ==
    (last.op = "get_block" /\ ~InGrid(Queried, last.coord))
    => last.outcome = "IndexError"

(***************************************************************************)
(* C9.  set_block(c, b) with c in the grid returns the Structure itself,   *)
(* makes get_block(c) equal to b (structure void for None), leaves every   *)
(* other cell and the size as they were, appends b to the palette only     *)
(* when b is not None and no equal entry exists, and leaves the palette    *)
(* alone otherwise.                                                        *)
(***************************************************************************)
C9_SetBlockFrame ==
    [][(last'.op = "set_block" /\ InGrid(struct, last'.coord))
        => (/\ last'.outcome = "ok"
            /\ last'.returns = "self"
            /\ struct'.size = struct.size
            /\ struct'.structure.shape = struct.structure.shape
            /\ get_block(struct', last'.coord).outcome = "ok"
            /\ BlockEq(get_block(struct', last'.coord).ret, Expected(last'.block))
            /\ \A d \in Cells(struct) \ {last'.coord} :
                  /\ GetItem(struct'.structure, d) = GetItem(struct.structure, d)
                  /\ get_block(struct', d) = get_block(struct, d)
            /\ struct'.palette =
                  IF last'.block # None /\ ~InPalette(struct.palette, last'.block)
                  THEN Append(struct.palette, last'.block)
                  ELSE struct.palette)]_vars

\* A new block has been placed in a grid that holds other blocks too.
C9_Witness ==
    /\ last.op = "set_block"
    /\ InGrid(struct, last.coord)
    /\ last.block # None
    /\ Len(struct.palette) >= 2
    /\ BlockEq(struct.palette[Len(struct.palette)], last.block)
    /\ Prod(struct.size) >= 2

(***************************************************************************)
(* C10.  A box fill does not depend on the order of its two corners: for   *)
(* corners in the grid it succeeds, gives the grid the fill with the       *)
(* corners swapped gives, and puts the block at every cell of the box      *)
(* min..max on each axis.                                                  *)
(***************************************************************************)
C10_FillAnyOrder ==
    [][(/\ last'.op = "set_blocks"
        /\ InGrid(struct, last'.coord)
        /\ InGrid(struct, last'.coord2))
        => (/\ last'.outcome = "ok"
            /\ struct' = set_blocks(struct, last'.coord2, last'.coord, last'.block).s
            /\ \A c \in Cells(struct) :
                  (\A k \in Axes :
                      /\ Min(last'.coord[k], last'.coord2[k]) <= c[k]
                      /\ c[k] <= Max(last'.coord[k], last'.coord2[k]))
                  => BlockEq(get_block(struct', c).ret, Expected(last'.block)))]_vars

(***************************************************************************)
(* C11.  A box fill from corner f to corner t, both in the grid and f <= t *)
(* on every axis, succeeds, returns the Structure itself, sets every cell  *)
(* c with f <= c <= t (end points included) to the interned index of the   *)
(* block and leaves every cell outside the box unchanged.                  *)
(***************************************************************************)
C11_BoxFill ==
    [][(/\ last'.op = "set_blocks"
        /\ InGrid(struct, last'.coord)
        /\ InGrid(struct, last'.coord2)
        /\ \A k \in Axes : last'.coord[k] <= last'.coord2[k])
        => (/\ last'.outcome = "ok"
            /\ last'.returns = "self"
            /\ struct'.size = struct.size
            /\ struct'.structure.shape = struct.structure.shape
            /\ struct'.palette = add_block_to_palette(struct.palette, last'.block).palette
            /\ \A c \in Cells(struct) :
                  IF InBox(c, last'.coord, last'.coord2)
                  THEN /\ GetItem(struct'.structure, c) =
                             add_block_to_palette(struct.palette, last'.block).ident
                       /\ BlockEq(get_block(struct', c).ret, Expected(last'.block))
                  ELSE GetItem(struct'.structure, c) = GetItem(struct.structure, c))]_vars

\* A box of two cells has been filled in a grid that has other cells, and a
\* cell outside the box holds something else.
C11_Witness ==
    /\ last.op = "set_blocks"
    /\ last.outcome = "ok"
    /\ InGrid(struct, last.coord)
    /\ InGrid(struct, last.coord2)
    /\ \A k \in Axes : last.coord[k] <= last.coord2[k]
    /\ last.coord # last.coord2
    /\ \E c \in Cells(struct) :
          /\ ~InBox(c, last.coord, last.coord2)
          /\ GetItem(struct.structure, c) #
                GetItem(struct.structure, last.coord)

(***************************************************************************)
(* C12.  After resize(new_size, fill) the size is new_size and, for every  *)
(* coordinate inside new_size, the block is the one it was when the        *)
(* coordinate was inside the old size too, and fill (structure void for    *)
(* None) otherwise; growing, shrinking and mixed changes all succeed.      *)
(***************************************************************************)
C12_Resize ==
    [][last'.op = "resize"
        => (/\ last'.outcome = "ok"
            /\ last'.returns = "self"
            /\ struct'.size = last'.size
            /\ struct'.structure.shape = last'.size
            /\ Len(struct'.structure.data) = Prod(last'.size)
            /\ \A c \in Cells(struct') :
                  /\ get_block(struct', c).outcome = "ok"
                  /\ IF InGrid(struct, c)
                     THEN get_block(struct', c) = get_block(struct, c)
                     ELSE BlockEq(get_block(struct', c).ret, Expected(last'.block)))]_vars

\* A resize has kept a placed block and exposed a new cell filled with air.
C12_Witness ==
    /\ last.op = "resize"
    /\ last.block = Air
    /\ struct.size = <<2, 1, 1>>
    /\ get_block(struct, <<0, 0, 0>>).ret = StairsWL
    /\ get_block(struct, <<1, 0, 0>>).ret = Air

(***************************************************************************)
(* C13.  For a non-negative position, self.combine(other, position)        *)
(* returns a Structure whose size on each axis is                          *)
(* max(self.size[axis], position[axis] + other.size[axis]).                *)
(***************************************************************************)
C13_CombineSize ==
    [][(/\ last'.op = "combine"
        /\ \A k \in Axes : last'.coord[k] >= 0)
        => (/\ last'.outcome = "ok"
            /\ last'.returns = "new"
            /\ \A k \in Axes :
                  /\ struct'.size[k] =
                        Max(CombineSelf(last', struct).size[k],
                            last'.coord[k] + CombineOther(last', struct).size[k])
                  /\ struct'.structure.shape[k] = struct'.size[k])]_vars

(***************************************************************************)
(* C14.  In the result of self.combine(other, position), a coordinate in   *)
(* other's box translated by position reads as other reads at the          *)
(* coordinate minus position, any other coordinate in self's box reads as  *)
(* self reads there, and every remaining coordinate reads structure void.  *)
(***************************************************************************)
C14_CombineContent ==
    [][(last'.op = "combine" /\ last'.outcome = "ok")
        => \A c \in Cells(struct') :
              /\ get_block(struct', c).outcome = "ok"
              /\ BlockEq(get_block(struct', c).ret,
                    IF InPlaced(c, last'.coord, CombineOther(last', struct).size)
                    THEN get_block(CombineOther(last', struct),
                                   [k \in Axes |-> c[k] - last'.coord[k]]).ret
                    ELSE IF InGrid(CombineSelf(last', struct), c)
                    THEN get_block(CombineSelf(last', struct), c).ret
                    ELSE STRUCTURE_VOID)]_vars

(***************************************************************************)
(* C15.  combine with a negative component in position fails with          *)
(* ValueError, returns no Structure and leaves both operands as they were. *)
(***************************************************************************)
C15_NegativePosition ==
    [][(/\ last'.op = "combine"
        /\ \E k \in Axes : last'.coord[k] < 0)
        => (/\ last'.outcome = "ValueError"
            /\ last'.returns = "raise"
            /\ struct' = struct)]_vars

\* A combine at a negative position has been tried on a Structure that
\* holds blocks, with a second operand that holds blocks too.
C15_Witness ==
    /\ last.op = "combine"
    /\ \E k \in Axes : last.coord[k] < 0
    /\ last.outcome = "ValueError"
    /\ last.block # None
    /\ Len(struct.palette) >= 1
    /\ Prod(struct.size) >= 2

(***************************************************************************)
(* C16.  Block.stringify renders the prefix "namespace:" only when         *)
(* with_namespace is true and the identifier has a namespace, then the     *)
(* name, then, only when with_states is true, a space and a bracketed      *)
(* comma-separated list with one "key"=value item per state in insertion   *)
(* order (strings double-quoted, booleans true/false, integers bare); a    *)
(* state value of any other type raises ValueError.                        *)
(***************************************************************************)
C16_Stringify ==
    probe.op = "stringify"
    => LET nn == namespace_and_name(probe.block)
           states == probe.block.states
           other_type == \E i \in 1..Len(states) : states[i].t \notin {"str", "bool", "int"}
       IN  IF probe.with_states /\ other_type
           THEN probe.outcome = "ValueError"
           ELSE /\ probe.outcome = "ok"
                /\ probe.result =
                      (IF probe.with_namespace /\ nn.has_ns THEN nn.ns \o <<":">> ELSE << >>)
                      \o nn.name
                      \o (IF probe.with_states
                          THEN <<" ", "[">>
                               \o Join([i \in 1..Len(states) |-> StateItem(states[i])], <<",">>)
                               \o <<"]">>
                          ELSE << >>)

(***************************************************************************)
(* C17.  In the document dump produces, the secondary index list is as     *)
(* long as the primary one; the entry of a cell is -1 unless the cell      *)
(* holds a palette entry that is waterlogged (a void cell always gets -1), *)
(* and then it is the index, in the palette written to the same document,  *)
(* of water with liquid depth 0; that water block is written at most once. *)
(***************************************************************************)
C17_SecondaryLayer ==
    (last.op = "dump" /\ last.outcome = "ok")
    => LET primary == doc.block_indices[1]
           secondary == doc.block_indices[2]
       IN  /\ Len(secondary) = Len(primary)
           /\ \A i \in 1..Len(primary) :
                 IF /\ 0 <= primary[i]
                    /\ primary[i] < Len(struct.palette)
                    /\ struct.palette[primary[i] + 1].waterlogged
                 THEN /\ 0 <= secondary[i]
                      /\ secondary[i] < Len(doc.block_palette)
                      /\ doc.block_palette[secondary[i] + 1] = PaletteTag(WATER)
                 ELSE secondary[i] = -1
           /\ Cardinality({j \in 1..Len(doc.block_palette) :
                              doc.block_palette[j] = PaletteTag(WATER)}) <= 1

(***************************************************************************)
(* C18.  as_nbt and dump raise no error for any Structure reachable        *)
(* through the public methods, all-void Structures with an empty palette   *)
(* and Structures that mix void cells with placed blocks included.         *)
(***************************************************************************)
C18_DumpSucceeds == last.op = "dump" => last.outcome = "ok"

(***************************************************************************)
(* C19.  load fails with FormatError, and returns no Structure, when the   *)
(* number of primary indices differs from the product of the size or when  *)
(* a primary index other than -1 is outside the document's palette.        *)
(***************************************************************************)
C19_LoadValidates ==
    [][\A d \in Files :
          (LoadFile(d) /\ Malformed(d))
          => (/\ last'.outcome = "FormatError"
              /\ ~loaded'.present)]_vars

(***************************************************************************)
(* C20.  Two Blocks are equal if and only if their identifiers are equal,  *)
(* their states mappings are equal and their waterlogged flags are equal;  *)
(* two Blocks that differ only in waterlogged are two palette entries.     *)
(***************************************************************************)
C20_BlockEquality ==
    /\ probe.op = "eq"
          => (probe.equal
                <=> /\ probe.block.identifier = probe.other.identifier
                    /\ SameMapping(probe.block.states, probe.other.states)
                    /\ probe.block.waterlogged = probe.other.waterlogged)
    /\ (/\ probe.op = "intern"
        /\ probe.block.identifier = probe.other.identifier
        /\ probe.block.states = probe.other.states
        /\ probe.block.waterlogged # probe.other.waterlogged)
          => /\ probe.palette = <<probe.block, probe.other>>
             /\ probe.ident = 1

\* Two Blocks that differ only in waterlogged have been compared.
C20_Witness ==
    /\ probe.op = "eq"
    /\ probe.block.identifier = probe.other.identifier
    /\ Len(probe.block.states) = 2
    /\ probe.block.states # probe.other.states
    /\ SameMapping(probe.block.states, probe.other.states)
    /\ probe.block.waterlogged # probe.other.waterlogged
    /\ ~probe.equal

(***************************************************************************)
(* C23.  No palette entry is the structure-void block: void is the index   *)
(* -1 in the grid and never occupies a palette position.                   *)
(***************************************************************************)
C23_NoVoidInPalette ==
    \A i \in 1..Len(struct.palette) :
        struct.palette[i].identifier # STRUCTURE_VOID.identifier

(***************************************************************************)
(* C25.  set_block with a coordinate outside the grid and a box fill with  *)
(* a corner outside the grid fail with IndexError, whether the component   *)
(* outside is negative or too large.                                       *)
(***************************************************************************)
C25_MutationOutOfGrid ==
    [][/\ (last'.op = "set_block" /\ ~InGrid(struct, last'.coord))
             => last'.outcome = "IndexError"
       /\ (/\ last'.op = "set_blocks"
           /\ (~InGrid(struct, last'.coord) \/ ~InGrid(struct, last'.coord2)))
             => last'.outcome = "IndexError"]_vars

(***************************************************************************)
(* C26.  When set_block or a box fill fails because of an out-of-grid      *)
(* coordinate, the Structure is as it was before the call: the same grid   *)
(* and the same palette.                                                   *)
(***************************************************************************)
C26_FailedMutationFrame ==
    [][(/\ last'.op \in {"set_block", "set_blocks"}
        /\ last'.outcome # "ok"
        /\ (~InGrid(struct, last'.coord)
              \/ (last'.op = "set_blocks" /\ ~InGrid(struct, last'.coord2))))
        => (/\ struct'.structure = struct.structure
            /\ struct'.palette = struct.palette
            /\ struct'.size = struct.size)]_vars

(***************************************************************************)
(* C27.  For every set_block, set_blocks, resize and dump the palette      *)
(* before the call is a prefix of the palette after it, so the block an    *)
(* existing index refers to never changes; resize to the current size      *)
(* leaves the grid as it is.                                               *)
(***************************************************************************)
C27_PaletteStable ==
    [][/\ last'.op \in {"set_block", "set_blocks", "resize", "dump"}
             => /\ IsPrefix(struct.palette, struct'.palette)
                /\ \A i \in 1..Len(struct.palette) :
                      struct'.palette[i] = struct.palette[i]
       /\ (last'.op = "resize" /\ last'.size = struct.size)
             => struct'.structure = struct.structure]_vars

\* An operation has appended a block to a palette that held one already.
C27_Witness ==
    /\ last.op \in {"set_block", "set_blocks", "resize", "dump"}
    /\ Len(struct.palette) >= 2
    /\ BlockEq(struct.palette[Len(struct.palette)],
               IF last.op = "dump" THEN WATER ELSE last.block)
    /\ \E i \in 1..Len(struct.structure.data) : struct.structure.data[i] = 0

(***************************************************************************)
(* C30.  as_nbt encodes every block-state value with the node type of its  *)
(* variant: a string as a string node, an integer as an int node and a     *)
(* boolean as a byte node.                                                 *)
(***************************************************************************)
C30_StateNodeTypes ==
    (last.op = "dump" /\ last.outcome = "ok")
    => /\ Len(doc.block_palette) = Len(struct.palette)
       /\ \A i \in 1..Len(struct.palette) :
             /\ Len(doc.block_palette[i].states) = Len(struct.palette[i].states)
             /\ \A j \in 1..Len(struct.palette[i].states) :
                   /\ doc.block_palette[i].states[j].key = struct.palette[i].states[j].key
                   /\ doc.block_palette[i].states[j].tag =
                         VariantTag(struct.palette[i].states[j])

(***************************************************************************)
(* C28.  dump leaves the index grid as it is and lets the palette grow by  *)
(* at most one entry, the water block; a second dump directly after the    *)
(* first produces the same document and does not change the palette.       *)
(***************************************************************************)
C28_DumpIdempotent ==
    [][/\ (last'.op = "dump" /\ last'.outcome = "ok")
             => /\ struct'.structure = struct.structure
                /\ struct'.size = struct.size
                /\ \/ struct'.palette = struct.palette
                   \/ struct'.palette = Append(struct.palette, WATER)
       /\ (last'.op = "dump" /\ last'.target = "again")
             => /\ last'.outcome = "ok"
                /\ doc' = doc
                /\ struct'.palette = struct.palette]_vars

C21_ExtraDataIgnored ==
    [][(/\ probe'.op = "set_block"
        /\ probe'.block # TrimNone
        /\ \E i \in 1..Len(probe.s.palette) :
              SameIdentifierAndStates(probe.s.palette[i], probe'.block))
        => probe'.s.palette = probe.s.palette]_vars

(***************************************************************************)
(* C22.  After any sequence of public operations, mirror and rotate of the *)
(* variants included, the size the Structure reports and dump writes is    *)
(* the shape of its index grid.                                            *)
(***************************************************************************)
C22_SizeIsShape ==
    /\ probe.s.size = probe.s.structure_indecis.shape
    /\ (probe.op = "dump" /\ probe.outcome = "ok")
          => probe.doc.size = probe.s.structure_indecis.shape

(***************************************************************************)
(* C24.  In the variant with per-block extra data, after load the palette  *)
(* entry at index i carries extra data if and only if the decimal string   *)
(* of i is a key of block_position_data, its extra data is that key's      *)
(* payload, and special_block_indices is exactly the set of those keys.    *)
(***************************************************************************)
C24_LoadExtraData ==
    (probe.op = "load" /\ probe.outcome = "ok")
    => /\ \A i \in 0..(Len(probe.s.palette) - 1) :
             IF IntStr(i) \in DataKeys(probe.file.block_position_data)
             THEN ExtraOf(probe.s.palette[i + 1], probe.default_extra)
                     = Payload(probe.file.block_position_data, IntStr(i))
             ELSE ExtraOf(probe.s.palette[i + 1], probe.default_extra) = {}
       /\ {IntStr(probe.s.special_block_indices[k]) :
               k \in 1..Len(probe.s.special_block_indices)}
             = DataKeys(probe.file.block_position_data)

====
